---- MODULE Spec2Model ----
(***************************************************************************)
(* Model of c_str::basic_builder<CharT, NullBehavior> (c_str_builder.hpp). *)
(*                                                                         *)
(* A builder holds a std::basic_string (_m_zero_suffixed) and a pointer    *)
(* (_m_ptr).  Addresses are modelled as records [k, i]:                    *)
(*   "null"  the null pointer                                              *)
(*   "zero"  the static member _m_zero of the instantiation                *)
(*   "src"   the data address of caller-owned object i                     *)
(*   "sso"   the local (in-object) buffer of builder i's std::basic_string *)
(*   "heap"  the heap block held by builder i's std::basic_string          *)
(*   "freed" a heap block or builder object that exists no more            *)
(* A std::basic_string keeps short strings in its local buffer and longer  *)
(* ones in a heap block; whether a block in use is reused or replaced, and *)
(* what a move assignment does with the destination's block, is a choice   *)
(* among the outcomes an implementation can produce.                       *)
(***************************************************************************)
EXTENDS Integers, Sequences, FiniteSets, TLC

\* ---------------------------------------------------------------- bounds
NA == 3          \* builder objects the caller works with
NS == 1          \* caller-owned string-like objects
MaxLen == 2      \* longest caller-owned character sequence
MaxChar == 1     \* characters are 0 (the null character) .. MaxChar
SsoCap == 1      \* characters the local buffer of a std::basic_string holds

AdapterIds == 1..NA
SourceIds == 1..NS
Chars == 0..MaxChar
Strings == UNION {[1..n -> Chars] : n \in 0..MaxLen}

\* The instantiations: five character types, two null behaviours.
common_char_type == {"char", "wchar_t", "char8_t", "char16_t", "char32_t"}
if_null == {"make_zero_length", "keep_null_pointer"}
SourceKinds == {"range", "basic_string", "path"}

VARIABLES
  CharT,             \* template parameter CharT of the instantiation
  null_behavior,     \* template parameter NullBehavior of the instantiation
  alive,             \* alive[a]: builder a is constructed and not destroyed
  m_ptr,             \* m_ptr[a]: _m_ptr of builder a
  m_zero_suffixed,   \* m_zero_suffixed[a]: _m_zero_suffixed, [chars, heap]
  source,            \* source[s]: caller-owned object [live, kind, chars]
  heap,              \* number of heap blocks allocated and not yet released
  last               \* the operation performed last, and the elements of
                     \* its argument that it read

vars == <<CharT, null_behavior, alive, m_ptr, m_zero_suffixed, source, heap,
          last>>

\* ------------------------------------------------------------- addresses
Null == [k |-> "null", i |-> 0]
m_zero == [k |-> "zero", i |-> 0]
SrcData(s) == [k |-> "src", i |-> s]
SsoData(a) == [k |-> "sso", i |-> a]
HeapData(a) == [k |-> "heap", i |-> a]
Freed == [k |-> "freed", i |-> 0]

\* std::basic_string: its characters and whether they are in a heap block
\* (FALSE: in the local buffer inside the object).
EmptyStr == [chars |-> <<>>, heap |-> FALSE]

\* std::basic_string::c_str() of builder a's _m_zero_suffixed, given its value.
c_str_of(a, str) == IF str.heap THEN HeapData(a) ELSE SsoData(a)

c_str(a) == c_str_of(a, m_zero_suffixed[a])

\* Memory of a caller-owned object as seen from its data address:
\* std::basic_string and std::filesystem::path store a terminator after
\* their characters, a generic range stores its elements only.
Mem(s) ==
  IF source[s].kind \in {"basic_string", "path"}
  THEN source[s].chars \o <<0>>
  ELSE source[s].chars

Terminated(mem) == \E i \in 1..Len(mem) : mem[i] = 0

\* --------------------------------------------------- std::basic_string ops
\* A heap block is named by the builder whose string holds it.  When a
\* string operation hands a block to another string or releases it, the
\* block keeps its address and changes its name: Renamed(p, from, to) is
\* the name after the operation of the address named p before it, where
\* the block named from[i] is named to[i] afterwards.
Renamed(p, from, to) ==
  IF \E i \in 1..Len(from) : p = from[i]
  THEN to[CHOOSE i \in 1..Len(from) : p = from[i]]
  ELSE p

\* How an assignment of cs to str can end: "same" (the characters fit the
\* capacity of the storage in use) or "new" (a block is allocated for them
\* and the block in use, if any, is released).  The local buffer holds
\* SsoCap characters, a block at least the characters it holds.
AssignChoices(str, cs) ==
  IF str.heap
  THEN IF Len(cs) <= Len(str.chars) THEN {"same"} ELSE {"same", "new"}
  ELSE IF Len(cs) <= SsoCap THEN {"same"} ELSE {"new"}

Assigned(str, cs, h) ==
  [chars |-> cs, heap |-> IF h = "new" THEN TRUE ELSE str.heap]

\* Blocks released and allocated by that assignment.
AssignReleased(str, h) == IF h = "new" /\ str.heap THEN 1 ELSE 0
AssignAllocated(h) == IF h = "new" THEN 1 ELSE 0

\* ------------------------------------------------------------ observation
\* What can be read through pointer p: the characters from p up to the end
\* of the object p refers to; Dangling (no character is negative) when no
\* such object exists.
Dangling == <<-1>>

Deref(p) ==
  CASE p.k = "zero" -> <<0>>
    [] p.k = "src" -> IF source[p.i].live THEN Mem(p.i) ELSE Dangling
    [] p.k = "sso" ->
         IF alive[p.i] /\ ~m_zero_suffixed[p.i].heap
         THEN m_zero_suffixed[p.i].chars \o <<0>> ELSE Dangling
    [] p.k = "heap" ->
         IF alive[p.i] /\ m_zero_suffixed[p.i].heap
         THEN m_zero_suffixed[p.i].chars \o <<0>> ELSE Dangling
    [] OTHER -> Dangling

\* std::char_traits<CharT>::length: the number of characters before the
\* first null character; any value when there is none to find.
traits_length(mem) ==
  LET nulls == {i \in 1..Len(mem) : mem[i] = 0} IN
  IF nulls # {}
  THEN {(CHOOSE i \in nulls : \A j \in nulls : i <= j) - 1}
  ELSE 0..(MaxLen + 1)

\* basic_builder::get()
get(a) == m_ptr[a]

\* basic_builder::length(): the set of values the call can return.
length(a) ==
  IF null_behavior = "make_zero_length"
  THEN traits_length(Deref(m_ptr[a]))
  ELSE IF m_ptr[a] # Null THEN traits_length(Deref(m_ptr[a])) ELSE {0}

\* ------------------------------------------------------------ construction
\* What a builder can be constructed from: nothing (default), the nullptr
\* literal, a pointer (null, s = 0, or to the data of a caller-owned
\* object) and a caller-owned object.
StrLikes ==
  {[cat |-> "default", s |-> 0], [cat |-> "nullptr_t", s |-> 0],
   [cat |-> "pointer", s |-> 0]}
  \cup {[cat |-> "pointer", s |-> s] : s \in SourceIds}
  \cup {[cat |-> "object", s |-> s] : s \in SourceIds}

\* _get_ptr(strLike) returns the pointer (ptr), leaves _m_zero_suffixed of
\* the builder under construction as str, and has read the elements of
\* strLike at the indices in read.
NoCopy(p, rd) == [ptr |-> p, str |-> EmptyStr, read |-> rd]

get_ptr_nullptr_always_null == NoCopy(Null, {})

\* _get_ptr, std::is_null_pointer_v<StrLikeT>
get_ptr_nullptr ==
  IF null_behavior = "make_zero_length"
  THEN NoCopy(m_zero, {})
  ELSE NoCopy(Null, {})

get_ptr_pointer_reads(x) ==
  IF x.s = 0 THEN get_ptr_nullptr ELSE NoCopy(SrcData(x.s), {1})

\* _get_ptr, std::is_pointer_v<StrLikeT>; x.s = 0 is the null pointer.
get_ptr_pointer(x) ==
  IF x.s = 0 THEN get_ptr_nullptr ELSE NoCopy(SrcData(x.s), {})

get_ptr_range_never_copies(a, x, h) ==
  LET cs == source[x.s].chars IN
  IF Len(cs) = 0 THEN NoCopy(m_zero, {})
  ELSE NoCopy(SrcData(x.s), {Len(cs)})

get_ptr_range_always_copies(a, x, h) ==
  LET cs == source[x.s].chars IN
  IF Len(cs) = 0 THEN NoCopy(m_zero, {})
  ELSE [ptr |-> c_str_of(a, Assigned(EmptyStr, cs, h)),
        str |-> Assigned(EmptyStr, cs, h), read |-> 1..Len(cs)]

get_ptr_range_empty_as_nullptr(a, x, h) ==
  LET cs == source[x.s].chars IN
  IF Len(cs) = 0 THEN get_ptr_nullptr
  ELSE IF cs[Len(cs)] # 0
    THEN [ptr |-> c_str_of(a, Assigned(EmptyStr, cs, h)),
          str |-> Assigned(EmptyStr, cs, h), read |-> 1..Len(cs)]
  ELSE NoCopy(SrcData(x.s), {Len(cs)})

get_ptr_range_stops_at_null(a, x, h) ==
  LET cs == source[x.s].chars IN
  IF Len(cs) = 0 THEN NoCopy(m_zero, {})
  ELSE IF ~Terminated(cs)
    THEN [ptr |-> c_str_of(a, Assigned(EmptyStr, cs, h)),
          str |-> Assigned(EmptyStr, cs, h), read |-> 1..Len(cs)]
  ELSE NoCopy(SrcData(x.s), {Len(cs)})

\* _get_ptr, the generic range, for builder a whose _m_zero_suffixed is
\* still default-constructed; h is how the assignment of the copy ends.
get_ptr_range(a, x, h) ==
  LET cs == source[x.s].chars IN
  IF Len(cs) = 0 THEN NoCopy(m_zero, {})
  ELSE IF cs[Len(cs)] # 0
    THEN [ptr |-> c_str_of(a, Assigned(EmptyStr, cs, h)),
          str |-> Assigned(EmptyStr, cs, h), read |-> 1..Len(cs)]
  ELSE NoCopy(SrcData(x.s), {Len(cs)})

get_ptr_string_as_range(a, x, h) == get_ptr_range(a, x, h)

\* _get_ptr, std::basic_string and std::filesystem::path: c_str() of the
\* object.
get_ptr_string(a, x, h) == NoCopy(SrcData(x.s), {})

\* _get_ptr(strLike): the branch is chosen by the type of strLike.
get_ptr(a, x, h) ==
  IF x.cat \in {"default", "nullptr_t"} THEN get_ptr_nullptr
  ELSE IF x.cat = "pointer" THEN get_ptr_pointer(x)
  ELSE IF source[x.s].kind \in {"basic_string", "path"}
    THEN get_ptr_string(a, x, h)
  ELSE get_ptr_range(a, x, h)

\* How the string assignment of _get_ptr(x) can end; there is one way
\* when _get_ptr(x) makes no assignment (its result does not depend on it).
GetPtrChoices(a, x) ==
  IF x.cat = "object" /\ get_ptr(a, x, "new") # get_ptr(a, x, "same")
  THEN AssignChoices(EmptyStr, source[x.s].chars)
  ELSE {"same"}

\* The name of a construction in `last`.
ConstructOp(x) ==
  CASE x.cat = "default" -> "construct_default"
    [] x.cat = "nullptr_t" -> "construct_nullptr"
    [] x.cat = "pointer" -> "construct_pointer"
    [] OTHER -> "construct_object"

\* basic_builder() and basic_builder(const StrLikeT &)
Construct(a, x) ==
  /\ ~alive[a]
  /\ x.s # 0 => source[x.s].live
  /\ (x.cat = "pointer" /\ x.s # 0) => Terminated(Mem(x.s))
  /\ \E h \in GetPtrChoices(a, x) :
       LET r == get_ptr(a, x, h) IN
       /\ alive' = [alive EXCEPT ![a] = TRUE]
       /\ m_ptr' = [m_ptr EXCEPT ![a] = r.ptr]
       /\ m_zero_suffixed' = [m_zero_suffixed EXCEPT ![a] = r.str]
       /\ heap' = heap + (IF r.str.heap THEN 1 ELSE 0)
       /\ last' = [op |-> ConstructOp(x), read |-> r.read]
  /\ UNCHANGED <<CharT, null_behavior, source>>

\* ~basic_builder(): the std::basic_string member releases its block; the
\* addresses of the object's members are not those of any object any more.
Destroy(a) ==
  /\ alive[a]
  /\ alive' = [alive EXCEPT ![a] = FALSE]
  /\ m_ptr' = [b \in AdapterIds |->
                 IF b = a THEN Null
                 ELSE Renamed(m_ptr[b], <<HeapData(a), SsoData(a)>>,
                              <<Freed, Freed>>)]
  /\ m_zero_suffixed' = [m_zero_suffixed EXCEPT ![a] = EmptyStr]
  /\ heap' = heap - (IF m_zero_suffixed[a].heap THEN 1 ELSE 0)
  /\ last' = [op |-> "destroy", read |-> {}]
  /\ UNCHANGED <<CharT, null_behavior, source>>

\* ------------------------------------------------- copy, move, assign, swap
NullResult_always_null == Null

\* The pointer of a builder constructed from nullptr.
NullResult == IF null_behavior = "make_zero_length" THEN m_zero ELSE Null

\* `other._m_zero_suffixed.c_str() == other._m_ptr`
BufUsed(o) == c_str(o) = m_ptr[o]

\* How `_m_zero_suffixed = other._m_zero_suffixed` can end.
CopyChoices(a, o) ==
  IF BufUsed(o)
  THEN AssignChoices(m_zero_suffixed[a], m_zero_suffixed[o].chars)
  ELSE {"same"}

copy_used_member_always_copies(a, o, h) ==
  LET str == Assigned(m_zero_suffixed[a], m_zero_suffixed[o].chars, h) IN
  /\ m_zero_suffixed' = [m_zero_suffixed EXCEPT ![a] = str]
  /\ m_ptr' = [m_ptr EXCEPT ![a] = c_str_of(a, str)]
  /\ heap' = heap - AssignReleased(m_zero_suffixed[a], h) + AssignAllocated(h)

copy_used_member_shallow(a, o, h) ==
  /\ m_ptr' = [m_ptr EXCEPT ![a] = m_ptr[o]]
  /\ UNCHANGED <<m_zero_suffixed, heap>>

copy_used_member_resets_other(a, o, h) ==
  IF BufUsed(o)
  THEN LET str == Assigned(m_zero_suffixed[a], m_zero_suffixed[o].chars, h) IN
       /\ m_zero_suffixed' = [m_zero_suffixed EXCEPT ![a] = str]
       /\ m_ptr' = [b \in AdapterIds |->
                      IF b = a THEN c_str_of(a, str)
                      ELSE IF b = o THEN NullResult
                      ELSE IF h = "new"
                      THEN Renamed(m_ptr[b], <<HeapData(a)>>, <<Freed>>)
                      ELSE m_ptr[b]]
       /\ heap' = heap - AssignReleased(m_zero_suffixed[a], h)
                       + AssignAllocated(h)
  ELSE /\ m_ptr' = [m_ptr EXCEPT ![a] = m_ptr[o], ![o] = NullResult]
       /\ UNCHANGED <<m_zero_suffixed, heap>>

\* _copy_used_member(other) on builder a; h is how the string assignment
\* ends.
copy_used_member(a, o, h) ==
  IF BufUsed(o)
  THEN LET str == Assigned(m_zero_suffixed[a], m_zero_suffixed[o].chars, h) IN
       /\ m_zero_suffixed' = [m_zero_suffixed EXCEPT ![a] = str]
       /\ m_ptr' = [b \in AdapterIds |->
                      IF b = a THEN c_str_of(a, str)
                      ELSE IF h = "new"
                      THEN Renamed(m_ptr[b], <<HeapData(a)>>, <<Freed>>)
                      ELSE m_ptr[b]]
       /\ heap' = heap - AssignReleased(m_zero_suffixed[a], h)
                       + AssignAllocated(h)
  ELSE /\ m_ptr' = [m_ptr EXCEPT ![a] = m_ptr[o]]
       /\ UNCHANGED <<m_zero_suffixed, heap>>

\* What becomes of the block the destination of a std::basic_string move
\* assignment holds: "keep" (it stays in use: handed to the moved-from
\* string, or kept to hold characters moved out of a local buffer) or
\* "release".
MoveChoices(a, o) ==
  IF BufUsed(o) /\ m_zero_suffixed[a].heap
  THEN {"keep", "release"} ELSE {"keep"}

MovedStr_leaks(a, o, v) ==
  LET ts == m_zero_suffixed[a]
      os == m_zero_suffixed[o]
      kept == v = "keep" /\ ts.heap
  IN IF os.heap
     THEN [this |-> os,
           other |-> [chars |-> <<>>, heap |-> kept],
           from |-> <<HeapData(o), HeapData(a)>>,
           to |-> <<HeapData(a), IF kept THEN HeapData(o) ELSE Freed>>,
           released |-> 0]
     ELSE [this |-> [chars |-> os.chars, heap |-> kept],
           other |-> EmptyStr,
           from |-> <<HeapData(a)>>,
           to |-> <<IF kept THEN HeapData(a) ELSE Freed>>,
           released |-> 0]

\* `_m_zero_suffixed = std::move(other._m_zero_suffixed);
\*  other._m_zero_suffixed = {};` : the two strings afterwards, the blocks
\* that change their name (from, to) and the number of blocks released.
MovedStr(a, o, v) ==
  LET ts == m_zero_suffixed[a]
      os == m_zero_suffixed[o]
      kept == v = "keep" /\ ts.heap
  IN IF os.heap
     THEN [this |-> os,
           other |-> [chars |-> <<>>, heap |-> kept],
           from |-> <<HeapData(o), HeapData(a)>>,
           to |-> <<HeapData(a), IF kept THEN HeapData(o) ELSE Freed>>,
           released |-> IF ts.heap /\ ~kept THEN 1 ELSE 0]
     ELSE [this |-> [chars |-> os.chars, heap |-> kept],
           other |-> EmptyStr,
           from |-> <<HeapData(a)>>,
           to |-> <<IF kept THEN HeapData(a) ELSE Freed>>,
           released |-> IF ts.heap /\ ~kept THEN 1 ELSE 0]

move_used_member_keeps_pointer(a, o, v) ==
  IF BufUsed(o)
  THEN LET r == MovedStr(a, o, v) IN
       /\ m_zero_suffixed' =
            [m_zero_suffixed EXCEPT ![a] = r.this, ![o] = r.other]
       /\ m_ptr' = [b \in AdapterIds |->
                      IF b = a THEN Renamed(m_ptr[o], r.from, r.to)
                      ELSE IF b = o THEN NullResult
                      ELSE Renamed(m_ptr[b], r.from, r.to)]
       /\ heap' = heap - r.released
  ELSE /\ m_ptr' = [m_ptr EXCEPT ![a] = m_ptr[o], ![o] = NullResult]
       /\ UNCHANGED <<m_zero_suffixed, heap>>

move_used_member_no_reset(a, o, v) ==
  IF BufUsed(o)
  THEN LET r == MovedStr(a, o, v) IN
       /\ m_zero_suffixed' =
            [m_zero_suffixed EXCEPT ![a] = r.this, ![o] = r.other]
       /\ m_ptr' = [b \in AdapterIds |->
                      IF b = a THEN c_str_of(a, r.this)
                      ELSE Renamed(m_ptr[b], r.from, r.to)]
       /\ heap' = heap - r.released
  ELSE /\ m_ptr' = [m_ptr EXCEPT ![a] = m_ptr[o]]
       /\ UNCHANGED <<m_zero_suffixed, heap>>

\* _move_used_member(std::move(other)) on builder a.
move_used_member(a, o, v) ==
  IF BufUsed(o)
  THEN LET r == MovedStr(a, o, v) IN
       /\ m_zero_suffixed' =
            [m_zero_suffixed EXCEPT ![a] = r.this, ![o] = r.other]
       /\ m_ptr' = [b \in AdapterIds |->
                      IF b = a THEN c_str_of(a, r.this)
                      ELSE IF b = o THEN NullResult
                      ELSE Renamed(m_ptr[b], r.from, r.to)]
       /\ heap' = heap - r.released
  ELSE /\ m_ptr' = [m_ptr EXCEPT ![a] = m_ptr[o], ![o] = NullResult]
       /\ UNCHANGED <<m_zero_suffixed, heap>>

\* basic_builder(const basic_builder &other)
CopyConstruct(a, o) ==
  /\ ~alive[a] /\ alive[o]
  /\ alive' = [alive EXCEPT ![a] = TRUE]
  /\ \E h \in CopyChoices(a, o) : copy_used_member(a, o, h)
  /\ last' = [op |-> "copy_construct", read |-> {}]
  /\ UNCHANGED <<CharT, null_behavior, source>>

\* basic_builder(basic_builder &&other)
MoveConstruct(a, o) ==
  /\ ~alive[a] /\ alive[o]
  /\ alive' = [alive EXCEPT ![a] = TRUE]
  /\ \E v \in MoveChoices(a, o) : move_used_member(a, o, v)
  /\ last' = [op |-> "move_construct", read |-> {}]
  /\ UNCHANGED <<CharT, null_behavior, source>>

\* operator=(const basic_builder &other)
CopyAssign(a, o) ==
  /\ alive[a] /\ alive[o]
  /\ IF a # o
     THEN \E h \in CopyChoices(a, o) : copy_used_member(a, o, h)
     ELSE UNCHANGED <<m_ptr, m_zero_suffixed, heap>>
  /\ last' = [op |-> "copy_assign", read |-> {}]
  /\ UNCHANGED <<CharT, null_behavior, alive, source>>

MoveAssign_no_self_check(a, o) ==
  /\ alive[a] /\ alive[o]
  /\ IF a # o
     THEN \E v \in MoveChoices(a, o) : move_used_member(a, o, v)
     ELSE /\ m_ptr' = [m_ptr EXCEPT ![a] = NullResult]
          /\ m_zero_suffixed' =
               [m_zero_suffixed EXCEPT ![a].chars =
                  IF BufUsed(a) THEN <<>> ELSE @]
          /\ UNCHANGED heap
  /\ last' = [op |-> "move_assign", read |-> {}]
  /\ UNCHANGED <<CharT, null_behavior, alive, source>>

\* operator=(basic_builder &&other)
MoveAssign(a, o) ==
  /\ alive[a] /\ alive[o]
  /\ IF a # o
     THEN \E v \in MoveChoices(a, o) : move_used_member(a, o, v)
     ELSE UNCHANGED <<m_ptr, m_zero_suffixed, heap>>
  /\ last' = [op |-> "move_assign", read |-> {}]
  /\ UNCHANGED <<CharT, null_behavior, alive, source>>

swap_pointers_only(a, o) ==
  /\ m_ptr' = [m_ptr EXCEPT ![a] = m_ptr[o], ![o] = m_ptr[a]]
  /\ UNCHANGED m_zero_suffixed

\* swap(basic_builder &other).  std::basic_string::swap exchanges the
\* characters and the heap blocks of the two strings, so the blocks
\* exchange their names.
swap(a, o) ==
  LET thisBufUsed == BufUsed(a)
      otherBufUsed == BufUsed(o)
      swapped == [m_zero_suffixed EXCEPT ![a] = m_zero_suffixed[o],
                                         ![o] = m_zero_suffixed[a]]
      After(p) == Renamed(p, <<HeapData(a), HeapData(o)>>,
                          <<HeapData(o), HeapData(a)>>)
  IN
  IF a = o THEN UNCHANGED <<m_ptr, m_zero_suffixed>>
  ELSE IF ~thisBufUsed /\ ~otherBufUsed
    THEN /\ m_ptr' = [m_ptr EXCEPT ![a] = m_ptr[o], ![o] = m_ptr[a]]
         /\ UNCHANGED m_zero_suffixed
  ELSE /\ m_zero_suffixed' = swapped
       /\ m_ptr' = [b \in AdapterIds |->
            IF b = a
            THEN IF thisBufUsed /\ ~otherBufUsed THEN After(m_ptr[o])
                 ELSE c_str_of(a, swapped[a])
            ELSE IF b = o
            THEN IF otherBufUsed /\ ~thisBufUsed THEN After(m_ptr[a])
                 ELSE c_str_of(o, swapped[o])
            ELSE After(m_ptr[b])]

Swap(a, o) ==
  /\ alive[a] /\ alive[o]
  /\ swap(a, o)
  /\ last' = [op |-> "swap", read |-> {}]
  /\ UNCHANGED <<CharT, null_behavior, alive, source, heap>>

\* ------------------------------------------------------------- the caller
\* The caller keeps an object alive and unchanged while a builder refers
\* to it (the lifetime contract of the class).
InUse(s) == \E a \in AdapterIds : alive[a] /\ m_ptr[a] = SrcData(s)

DeadSource == [live |-> FALSE, kind |-> "range", chars |-> <<>>]

SourceCreate(s, kind, cs) ==
  /\ ~source[s].live
  /\ source' = [source EXCEPT ![s] = [live |-> TRUE, kind |-> kind, chars |-> cs]]
  /\ last' = [op |-> "source_create", read |-> {}]
  /\ UNCHANGED <<CharT, null_behavior, alive, m_ptr, m_zero_suffixed, heap>>

SourceMutate(s, cs) ==
  /\ source[s].live /\ ~InUse(s)
  /\ cs # source[s].chars
  /\ source' = [source EXCEPT ![s].chars = cs]
  /\ last' = [op |-> "source_mutate", read |-> {}]
  /\ UNCHANGED <<CharT, null_behavior, alive, m_ptr, m_zero_suffixed, heap>>

SourceDestroy(s) ==
  /\ source[s].live /\ ~InUse(s)
  /\ source' = [source EXCEPT ![s] = DeadSource]
  /\ last' = [op |-> "source_destroy", read |-> {}]
  /\ UNCHANGED <<CharT, null_behavior, alive, m_ptr, m_zero_suffixed, heap>>

\* ------------------------------------------------------------------ system
Init ==
  /\ CharT = "char"
  /\ null_behavior \in if_null
  /\ alive = [a \in AdapterIds |-> FALSE]
  /\ m_ptr = [a \in AdapterIds |-> Null]
  /\ m_zero_suffixed = [a \in AdapterIds |-> EmptyStr]
  /\ source = [s \in SourceIds |-> DeadSource]
  /\ heap = 0
  /\ last = [op |-> "init", read |-> {}]

\* The caller's objects in the runs that copy, move and swap builders:
\* ranges with no null character but a terminator after other characters.
PlainRanges ==
  {cs \in Strings :
     \A i \in 1..Len(cs) : cs[i] = 0 => (i = Len(cs) /\ i > 1)}

Next ==
  \/ \E a \in AdapterIds, x \in StrLikes : Construct(a, x)
  \/ \E a \in AdapterIds : Destroy(a)
  \/ \E a, o \in AdapterIds : CopyConstruct(a, o)
  \/ \E a, o \in AdapterIds : MoveConstruct(a, o)
  \/ \E a, o \in AdapterIds : CopyAssign(a, o)
  \/ \E a, o \in AdapterIds : MoveAssign(a, o)
  \/ \E a, o \in AdapterIds : Swap(a, o)
  \/ \E s \in SourceIds, cs \in PlainRanges : SourceCreate(s, "range", cs)
  \/ \E s \in SourceIds, cs \in PlainRanges : SourceMutate(s, cs)
  \/ \E s \in SourceIds : SourceDestroy(s)

Spec == Init /\ [][Next]_vars

\* Construction from every kind of string-like object, for each of the
\* instantiations.
InitConstruct ==
  /\ CharT \in common_char_type
  /\ null_behavior \in if_null
  /\ alive = [a \in AdapterIds |-> FALSE]
  /\ m_ptr = [a \in AdapterIds |-> Null]
  /\ m_zero_suffixed = [a \in AdapterIds |-> EmptyStr]
  /\ source = [s \in SourceIds |-> DeadSource]
  /\ heap = 0
  /\ last = [op |-> "init", read |-> {}]

NextConstruct ==
  \/ \E a \in AdapterIds, x \in StrLikes : Construct(a, x)
  \/ \E a \in AdapterIds : Destroy(a)
  \/ \E s \in SourceIds, k \in SourceKinds, cs \in Strings : SourceCreate(s, k, cs)
  \/ \E s \in SourceIds, cs \in Strings : SourceMutate(s, cs)
  \/ \E s \in SourceIds : SourceDestroy(s)

SpecConstruct == InitConstruct /\ [][NextConstruct]_vars

\* ================================================================ claims
Chars_(a) == m_zero_suffixed[a].chars

\* What a caller observes of builder a: get(), the characters read
\* through it, and length().
Obs(a) == <<get(a), Deref(get(a)), length(a)>>

\* The number of characters of mem before its first null character.
BeforeNull(mem) ==
  (CHOOSE i \in 1..Len(mem) : mem[i] = 0 /\ \A j \in 1..(i - 1) : mem[j] # 0) - 1

HasNull(cs) == \E i \in 1..Len(cs) : cs[i] = 0

\* Builders holding a heap block.
Holders == {a \in AdapterIds : alive[a] /\ m_zero_suffixed[a].heap}

\* ---------------------------------------------------------------------
\* C1: in every reachable state the pointer of each live builder is null
\* (only under keep_null_pointer), the address of the static zero value,
\* the data address of its own string, or the data address of a live
\* caller-owned object; never a released block, a destroyed object or the
\* buffer of another builder.
C1_PointerNeverDangles ==
  \A a \in AdapterIds : alive[a] =>
    \/ m_ptr[a] = Null /\ null_behavior = "keep_null_pointer"
    \/ m_ptr[a] = m_zero
    \/ m_ptr[a] = c_str(a)
    \/ m_ptr[a].k = "src" /\ source[m_ptr[a].i].live

\* A builder holds a heap block it took over by move assignment, and the
\* builder it was moved from is alive in its null state.
C1_Witness ==
  /\ last.op = "move_assign"
  /\ \E a, o \in AdapterIds :
       /\ a # o /\ alive[a] /\ alive[o]
       /\ m_zero_suffixed[a].heap /\ m_ptr[a] = HeapData(a)
       /\ Chars_(a) # <<>>
       /\ m_ptr[o] = NullResult /\ Chars_(o) = <<>>

\* ---------------------------------------------------------------------
\* C2: invariant I2: in every reachable state, a live builder whose
\* owned buffer is not empty has its pointer at the data address of that
\* buffer.
C2_NonEmptyBufferIsUsed ==
  \A a \in AdapterIds :
    (alive[a] /\ Chars_(a) # <<>>) => m_ptr[a] = c_str(a)

\* ---------------------------------------------------------------------
\* C3: constructing from a non-empty range whose last element is not the
\* null character copies the range: get() is the data address of the
\* builder's own string and not that of the range, the characters read
\* through it are the elements of the range followed by a terminator, and
\* length() is the size of a range without a null character; changing or
\* destroying a caller-owned object afterwards changes nothing a caller
\* observes of a builder that uses its own buffer.
C3_UnterminatedRangeIsCopied ==
  [][ /\ \A a \in AdapterIds, s \in SourceIds :
           LET cs == source[s].chars IN
           ( /\ last'.op = "construct_object"
             /\ source[s].kind = "range"
             /\ Len(cs) > 0 /\ cs[Len(cs)] # 0
             /\ Construct(a, [cat |-> "object", s |-> s]) )
           => /\ get(a)' = c_str(a)'
              /\ get(a)' # SrcData(s)
              /\ Chars_(a)' = cs
              /\ Deref(get(a))' = cs \o <<0>>
              /\ (~HasNull(cs) => length(a)' = {Len(cs)})
      /\ source' # source
           => \A a \in AdapterIds :
                (alive[a] /\ BufUsed(a)) => Obs(a)' = Obs(a)
    ]_vars

\* A builder made from the range {1, 1} still reads 1, 1 from its own
\* buffer after the range was changed.
C3_Witness ==
  /\ last.op = "source_mutate"
  /\ \E a \in AdapterIds :
       /\ alive[a] /\ BufUsed(a)
       /\ Deref(get(a)) = <<1, 1, 0>> /\ length(a) = {2}
       /\ \A s \in SourceIds : source[s].chars # <<1, 1>>

\* ---------------------------------------------------------------------
\* C4: constructing from a non-empty range whose last element is the
\* null character makes no copy: get() is the data address of the range,
\* the owned buffer stays empty, no block is allocated, and length() is
\* the number of elements before the first null character of the range.
C4_TerminatedRangeIsNotCopied ==
  [][ \A a \in AdapterIds, s \in SourceIds :
        LET cs == source[s].chars IN
        ( /\ last'.op = "construct_object"
          /\ source[s].kind = "range"
          /\ Len(cs) > 0 /\ cs[Len(cs)] = 0
          /\ Construct(a, [cat |-> "object", s |-> s]) )
        => /\ get(a)' = SrcData(s)
           /\ m_zero_suffixed'[a] = EmptyStr
           /\ heap' = heap
           /\ length(a)' = {BeforeNull(cs)}
    ]_vars

\* A builder was just made from the range {1, 0}.
C4_Witness ==
  /\ last.op = "construct_object" /\ last.read = {2}
  /\ \E a \in AdapterIds, s \in SourceIds :
       /\ alive[a] /\ get(a) = SrcData(s)
       /\ source[s].kind = "range" /\ source[s].chars = <<1, 0>>
       /\ length(a) = {1}

\* ---------------------------------------------------------------------
\* C5: for each character type, a builder made from a null source (no
\* argument, nullptr, a null pointer) has an empty owned buffer and
\* length() 0; its get() is the address of the static zero value, not
\* null, under make_zero_length and null under keep_null_pointer.
C5_NullSource ==
  [][ \A a \in AdapterIds :
        \A x \in {[cat |-> "default", s |-> 0], [cat |-> "nullptr_t", s |-> 0],
                  [cat |-> "pointer", s |-> 0]} :
          Construct(a, x)
          => /\ m_zero_suffixed'[a] = EmptyStr
             /\ length(a)' = {0}
             /\ null_behavior = "make_zero_length"
                  => (get(a)' = m_zero /\ get(a)' # Null)
             /\ null_behavior = "keep_null_pointer" => get(a)' = Null
    ]_vars

\* A char32_t builder keeping null pointers was just made from a null
\* pointer, next to a live builder made the same way.
C5_Witness ==
  /\ last.op = "construct_pointer"
  /\ CharT = "char32_t" /\ null_behavior = "keep_null_pointer"
  /\ \E a, b \in AdapterIds :
       /\ a # b /\ alive[a] /\ alive[b]
       /\ get(a) = Null /\ get(b) = Null /\ length(a) = {0}

\* ---------------------------------------------------------------------
\* C6: constructing from an empty range gives, under both null
\* behaviours, get() at the static zero value (not null, not the range's
\* data address), length() 0 and an empty owned buffer.
C6_EmptyRange ==
  [][ \A a \in AdapterIds, s \in SourceIds :
        ( /\ last'.op = "construct_object"
          /\ source[s].kind = "range" /\ source[s].chars = <<>>
          /\ Construct(a, [cat |-> "object", s |-> s]) )
        => /\ get(a)' = m_zero
           /\ get(a)' # Null /\ get(a)' # SrcData(s)
           /\ length(a)' = {0}
           /\ m_zero_suffixed'[a] = EmptyStr
    ]_vars

\* Under keep_null_pointer a builder was just made from an empty range
\* and does not hold the null pointer.
C6_Witness ==
  /\ last.op = "construct_object"
  /\ null_behavior = "keep_null_pointer"
  /\ \E a \in AdapterIds, s \in SourceIds :
       /\ alive[a] /\ get(a) = m_zero
       /\ source[s].live /\ source[s].kind = "range" /\ source[s].chars = <<>>
       /\ \A b \in AdapterIds : b # a => ~alive[b]

\* ---------------------------------------------------------------------
\* C7: constructing from a non-null pointer stores the pointer unchanged,
\* reads no element of the memory it points to and leaves the owned
\* buffer empty, under both null behaviours.
C7_PointerIsStoredUnchanged ==
  [][ \A a \in AdapterIds, s \in SourceIds :
        Construct(a, [cat |-> "pointer", s |-> s])
        => /\ get(a)' = SrcData(s)
           /\ last'.read = {}
           /\ m_zero_suffixed'[a] = EmptyStr
           /\ heap' = heap
    ]_vars

\* A builder was just made from a pointer to the characters of a
\* caller-owned string.
C7_Witness ==
  /\ last.op = "construct_pointer"
  /\ \E a \in AdapterIds, s \in SourceIds :
       /\ alive[a] /\ get(a) = SrcData(s)
       /\ source[s].kind = "basic_string" /\ source[s].chars = <<1, 1>>
       /\ \A b \in AdapterIds : b # a => ~alive[b]

\* ---------------------------------------------------------------------
\* C8: constructing from a std::basic_string or a std::filesystem::path
\* makes no copy whatever the characters are: get() is the object's own
\* c_str(), the owned buffer stays empty, and length() is the number of
\* characters before the first null character of the object.
C8_StringAndPathAreNotCopied ==
  [][ \A a \in AdapterIds, s \in SourceIds :
        ( /\ last'.op = "construct_object"
          /\ source[s].kind \in {"basic_string", "path"}
          /\ Construct(a, [cat |-> "object", s |-> s]) )
        => /\ get(a)' = SrcData(s)
           /\ m_zero_suffixed'[a] = EmptyStr
           /\ heap' = heap
           /\ last'.read = {}
           /\ length(a)' = {BeforeNull(source[s].chars \o <<0>>)}
    ]_vars

\* A builder was just made from a path whose last character is not the
\* null character.
C8_Witness ==
  /\ last.op = "construct_object"
  /\ \E a \in AdapterIds, s \in SourceIds :
       /\ alive[a] /\ get(a) = SrcData(s)
       /\ source[s].kind = "path" /\ source[s].chars = <<1, 1>>
       /\ length(a) = {2}
       /\ \A b \in AdapterIds : b # a => ~alive[b]

\* ---------------------------------------------------------------------
\* C9: a copy (construction or assignment) from a builder that uses its
\* own buffer gives the destination a buffer of its own with the same
\* characters and a pointer at the data address of that buffer, which
\* is not the source's; and what a caller observes (get(), the characters
\* read through it, length()) of a builder that uses its own buffer is
\* left unchanged by every operation on other builders only.
C9_CopyIsDeepAndIndependent ==
  [][ /\ last'.op \in {"copy_construct", "copy_assign"}
           => \A a, o \in AdapterIds :
                ( /\ a # o /\ BufUsed(o)
                  /\ (CopyConstruct(a, o) \/ CopyAssign(a, o)) )
                => /\ Chars_(a)' = Chars_(o)
                   /\ get(a)' = c_str(a)'
                   /\ get(a)' # get(o)'
                   /\ Deref(get(a))' = Deref(get(o))
                   /\ length(a)' = length(o)
      /\ \A b \in AdapterIds :
           (alive[b] /\ BufUsed(b) /\ Obs(b)' # Obs(b))
           => \A a, o \in AdapterIds \ {b} :
                ~ CASE last'.op = "destroy" -> Destroy(a)
                    [] last'.op = "copy_construct" -> CopyConstruct(a, o)
                    [] last'.op = "copy_assign" -> CopyAssign(a, o)
                    [] last'.op = "move_construct" -> MoveConstruct(a, o)
                    [] last'.op = "move_assign" -> MoveAssign(a, o)
                    [] last'.op = "swap" -> Swap(a, o)
                    [] OTHER -> \E x \in StrLikes : Construct(a, x)
    ]_vars

\* A builder was just copy-assigned from another one; each of the two
\* uses its own heap block, with the same characters.
C9_Witness ==
  /\ last.op = "copy_assign"
  /\ \E a, o \in AdapterIds :
       /\ a # o /\ alive[a] /\ alive[o]
       /\ get(a) = HeapData(a) /\ get(o) = HeapData(o)
       /\ Chars_(a) = <<1, 1>> /\ Chars_(o) = <<1, 1>>

\* ---------------------------------------------------------------------
\* C10: a move (construction or assignment) from a builder that uses its
\* own buffer transfers the buffer: the destination's pointer is the data
\* address of its own string, which has the source's former characters
\* and length(); the source's string is empty, its get() is that of a
\* builder made from nullptr and its length() is 0; a heap block of the
\* source is held by the destination alone, and the blocks allocated are
\* exactly those held by live builders, each released by the destruction
\* of its holder.
C10_MoveTransfersBuffer ==
  [][ /\ last'.op \in {"move_construct", "move_assign"}
           => \A a, o \in AdapterIds :
                ( /\ a # o /\ BufUsed(o)
                  /\ (MoveConstruct(a, o) \/ MoveAssign(a, o)) )
                => /\ get(a)' = c_str(a)'
                   /\ Chars_(a)' = Chars_(o)
                   /\ Deref(get(a))' = Deref(get(o))
                   /\ length(a)' = length(o)
                   /\ Chars_(o)' = <<>>
                   /\ get(o)' = NullResult
                   /\ length(o)' = {0}
                   /\ m_zero_suffixed[o].heap
                        => /\ m_zero_suffixed'[a].heap
                           /\ get(a)' = HeapData(a)
                           /\ get(o)' # HeapData(a)
                           /\ heap' <= heap
      /\ heap' = Cardinality(Holders')
      /\ last'.op = "destroy"
           => \A a \in AdapterIds :
                Destroy(a) =>
                  heap' = heap - (IF m_zero_suffixed[a].heap THEN 1 ELSE 0)
    ]_vars

\* A builder was just move-constructed from one using a heap block: it
\* uses the only block allocated, the other one is in its null state.
C10_Witness ==
  /\ last.op = "move_construct"
  /\ \E a, o \in AdapterIds :
       /\ a # o /\ alive[a] /\ alive[o]
       /\ get(a) = HeapData(a) /\ Chars_(a) = <<1, 1>>
       /\ get(o) = NullResult /\ m_zero_suffixed[o] = EmptyStr
       /\ heap = 1

\* ---------------------------------------------------------------------
\* C11: a.swap(b) on two distinct builders, in each of the four
\* combinations of using the own buffer, leaves each with what a caller
\* observed of the other: the characters read through get(), length(),
\* whether the own buffer is used, the identical pointer where the other
\* did not use its buffer, and the data address of the own string where
\* the other did.
C11_SwapExchangesObservations ==
  [][ last'.op = "swap"
        => \A a, o \in AdapterIds :
             (a # o /\ Swap(a, o))
             => /\ Deref(get(a))' = Deref(get(o))
                /\ Deref(get(o))' = Deref(get(a))
                /\ length(a)' = length(o)
                /\ length(o)' = length(a)
                /\ BufUsed(a)' = BufUsed(o)
                /\ BufUsed(o)' = BufUsed(a)
                /\ ~BufUsed(o) => get(a)' = get(o)
                /\ ~BufUsed(a) => get(o)' = get(a)
                /\ BufUsed(o) => get(a)' = c_str(a)'
                /\ BufUsed(a) => get(o)' = c_str(o)'
    ]_vars

\* Two builders were just swapped: one uses its heap block, the other
\* refers to a caller-owned range.
C11_Witness ==
  /\ last.op = "swap"
  /\ \E a, o \in AdapterIds, s \in SourceIds :
       /\ a # o /\ alive[a] /\ alive[o]
       /\ get(a) = HeapData(a) /\ Chars_(a) = <<1, 1>>
       /\ get(o) = SrcData(s) /\ source[s].chars = <<1, 0>>

\* ---------------------------------------------------------------------
\* C12: under make_zero_length the pointer of a live builder is never
\* null, whatever constructed, copied, moved, assigned or swapped it, so
\* length() scans an object; under keep_null_pointer length() is 0 for a
\* builder whose pointer is null.
C12_NullPointerIsNeverScanned ==
  \A a \in AdapterIds : alive[a] =>
    /\ null_behavior = "make_zero_length"
         => (m_ptr[a] # Null /\ Deref(m_ptr[a]) # Dangling)
    /\ (null_behavior = "keep_null_pointer" /\ m_ptr[a] = Null)
         => length(a) = {0}

\* Under make_zero_length a builder was just moved from by assignment and
\* holds the address of the static zero value.
C12_Witness ==
  /\ last.op = "move_assign"
  /\ null_behavior = "make_zero_length"
  /\ \E a, o \in AdapterIds :
       /\ a # o /\ alive[a] /\ alive[o]
       /\ get(a) = HeapData(a)
       /\ get(o) = m_zero /\ length(o) = {0}

\* ---------------------------------------------------------------------
\* C13: copy-assigning a builder to itself, move-assigning it to itself
\* and swapping it with itself leave its string and its pointer (and
\* those of every other builder) unchanged, whether or not it uses its
\* buffer; a self-move does not reset it.
C13_SelfOperationsAreNoOps ==
  [][ last'.op \in {"copy_assign", "move_assign", "swap"}
        => \A a \in AdapterIds :
             (CopyAssign(a, a) \/ MoveAssign(a, a) \/ Swap(a, a))
             => /\ m_zero_suffixed' = m_zero_suffixed
                /\ m_ptr' = m_ptr
                /\ heap' = heap
                /\ Obs(a)' = Obs(a)
    ]_vars

\* The only live builder uses its heap block right after a move
\* assignment, which therefore was one to itself.
C13_Witness ==
  /\ last.op = "move_assign"
  /\ \E a \in AdapterIds :
       /\ alive[a] /\ get(a) = HeapData(a) /\ Chars_(a) = <<1, 1>>
       /\ \A b \in AdapterIds : b # a => ~alive[b]

\* ---------------------------------------------------------------------
\* C14: a copy (construction or assignment) from a builder that does not
\* use its own buffer stores the source's pointer unchanged in the
\* destination and copies no characters: both return the same get(), no
\* string changes, no block is allocated, and the destination does not
\* use its own buffer afterwards.
C14_NonOwningCopyIsVerbatim ==
  [][ last'.op \in {"copy_construct", "copy_assign"}
        => \A a, o \in AdapterIds :
             ( /\ a # o /\ ~BufUsed(o)
               /\ (CopyConstruct(a, o) \/ CopyAssign(a, o)) )
             => /\ get(a)' = get(o)
                /\ get(a)' = get(o)'
                /\ m_zero_suffixed' = m_zero_suffixed
                /\ heap' = heap
                /\ ~BufUsed(a)'
    ]_vars

\* A builder was just copy-assigned from one referring to a caller-owned
\* range; both hold the range's data address and neither has characters
\* of its own.
C14_Witness ==
  /\ last.op = "copy_assign"
  /\ \E a, o \in AdapterIds, s \in SourceIds :
       /\ a # o /\ alive[a] /\ alive[o]
       /\ get(a) = SrcData(s) /\ get(o) = SrcData(s)
       /\ Chars_(a) = <<>> /\ Chars_(o) = <<>>
       /\ source[s].chars = <<1, 0>>

\* ---------------------------------------------------------------------
\* C15: after every move (construction or assignment) between two
\* distinct builders, whether or not the source used its buffer, the
\* source is in the state of a default-constructed builder: its string
\* is empty, its get() is that of a builder made from nullptr, its
\* length() is 0; and the destination's get() is the source's former
\* pointer where the source did not use its buffer.
C15_MovedFromIsNullSourceState ==
  [][ last'.op \in {"move_construct", "move_assign"}
        => \A a, o \in AdapterIds :
             ( /\ a # o
               /\ (MoveConstruct(a, o) \/ MoveAssign(a, o)) )
             => /\ Chars_(o)' = <<>>
                /\ get(o)' = NullResult
                /\ length(o)' = {0}
                /\ ~BufUsed(o) => get(a)' = get(o)
    ]_vars

\* ---------------------------------------------------------------------
\* C16: a.swap(b) on two distinct builders exchanges their whole state in
\* every case, also when neither uses its buffer: each has the characters
\* the other's string had, and each pointer is the other's former one, or
\* the data address of the own string where the other used its buffer.
C16_SwapExchangesWholeState ==
  [][ last'.op = "swap"
        => \A a, o \in AdapterIds :
             (a # o /\ Swap(a, o))
             => /\ Chars_(a)' = Chars_(o)
                /\ Chars_(o)' = Chars_(a)
                /\ get(a)' = IF BufUsed(o) THEN c_str(a)' ELSE get(o)
                /\ get(o)' = IF BufUsed(a) THEN c_str(o)' ELSE get(a)
    ]_vars

\* ---------------------------------------------------------------------
\* C17: whether a non-empty range is copied depends on its last element
\* only.  A range with a null character before a last element that is
\* not null is copied whole, the null character included, and length()
\* is the index of that first null character, less than the size of the
\* range; a range with a null character before a null last element is
\* not copied.
C17_EmbeddedNull ==
  [][ \A a \in AdapterIds, s \in SourceIds :
        LET cs == source[s].chars
            n == Len(cs)
            embedded == \E i \in 1..(n - 1) : cs[i] = 0
        IN ( /\ last'.op = "construct_object"
             /\ source[s].kind = "range" /\ n > 0
             /\ Construct(a, [cat |-> "object", s |-> s]) )
           => /\ (get(a)' = c_str(a)') <=> (cs[n] # 0)
              /\ (get(a)' = SrcData(s)) <=> (cs[n] = 0)
              /\ (embedded /\ cs[n] # 0)
                   => /\ Chars_(a)' = cs
                      /\ last'.read = 1..n
                      /\ Deref(get(a))' = cs \o <<0>>
                      /\ length(a)' = {BeforeNull(cs)}
                      /\ BeforeNull(cs) < n
              /\ (embedded /\ cs[n] = 0)
                   => /\ m_zero_suffixed'[a] = EmptyStr
                      /\ heap' = heap
                      /\ length(a)' = {BeforeNull(cs)}
    ]_vars

\* A builder was just made from the range {0, 1}: it uses its own buffer
\* with both elements, and its length() is 0.
C17_Witness ==
  /\ last.op = "construct_object" /\ last.read = {1, 2}
  /\ \E a \in AdapterIds, s \in SourceIds :
       /\ alive[a] /\ get(a) = c_str(a)
       /\ source[s].kind = "range" /\ source[s].chars = <<0, 1>>
       /\ Chars_(a) = <<0, 1>> /\ length(a) = {0}

\* ---------------------------------------------------------------------
\* C18: in every reachable state the blocks allocated are exactly those
\* held by the strings of live builders, one holder each; no two live
\* builders point into the same buffer, and a builder's pointer into a
\* string buffer is into its own; a destroyed builder holds no block, so
\* when all are destroyed every block has been released, and none twice.
C18_BufferOwnershipIsExclusive ==
  /\ heap = Cardinality(Holders)
  /\ heap >= 0
  /\ \A a \in AdapterIds :
       /\ ~alive[a] => ~m_zero_suffixed[a].heap
       /\ (alive[a] /\ m_ptr[a].k \in {"heap", "sso"})
            => /\ m_ptr[a].i = a
               /\ \A b \in AdapterIds \ {a} : alive[b] => m_ptr[b] # m_ptr[a]
  /\ (\A a \in AdapterIds : ~alive[a]) => heap = 0

\* A builder was just destroyed while two others each use a heap block
\* of their own with the same characters.
C18_Witness ==
  /\ last.op = "destroy"
  /\ heap = 2
  /\ \E a, b \in AdapterIds :
       /\ a # b /\ alive[a] /\ alive[b]
       /\ get(a) = HeapData(a) /\ get(b) = HeapData(b)
       /\ Chars_(a) = Chars_(b)

\* ---------------------------------------------------------------------
\* C19: a copy (construction or assignment) leaves its source unchanged:
\* the source's string, its pointer, the characters read through get()
\* and length() are the same after the copy as before, whether or not
\* the source uses its buffer and whether or not the destination did.
C19_CopyLeavesSourceUnchanged ==
  [][ last'.op \in {"copy_construct", "copy_assign"}
        => \A a, o \in AdapterIds :
             ( /\ a # o
               /\ (CopyConstruct(a, o) \/ CopyAssign(a, o)) )
             => /\ m_zero_suffixed'[o] = m_zero_suffixed[o]
                /\ m_ptr'[o] = m_ptr[o]
                /\ Obs(o)' = Obs(o)
    ]_vars

\* A builder was just copy-constructed from one using its local buffer;
\* the source still uses its local buffer with the same character.
C19_Witness ==
  /\ last.op = "copy_construct"
  /\ \E a, o \in AdapterIds :
       /\ a # o /\ alive[a] /\ alive[o]
       /\ get(o) = SsoData(o) /\ Chars_(o) = <<1>>
       /\ get(a) = SsoData(a) /\ Chars_(a) = <<1>>

====
